---- MODULE Spec2Model ----
(***************************************************************************)
(* Lue_viikko.py: a semicolon-delimited CSV of daily electricity readings  *)
(* is read, its columns are mapped, every data row is folded into one      *)
(* aggregate per weekday and the aggregates are printed Monday to Sunday.  *)
(*                                                                         *)
(* A text (Python str) is a sequence of characters; a character is a       *)
(* one-character string, except the tokens BOM (U+FEFF), "a_uml" and       *)
(* "A_uml" (the letters a and A with diaeresis).                           *)
(***************************************************************************)
EXTENDS Integers, Sequences, FiniteSets, TLC

VARIABLES file, data, pc, has_header, indices, i, daily_data, out,
          fn_text, fn_pc, fn_date, fn_wd

vars == <<file, data, pc, has_header, indices, i, daily_data, out,
          fn_text, fn_pc, fn_date, fn_wd>>

progVars == <<file, data, pc, has_header, indices, i, daily_data, out>>

fnVars == <<fn_text, fn_pc, fn_date, fn_wd>>

(***************************************************************************)
(* Bounds of the model.                                                    *)
(***************************************************************************)
\* Longest file, in rows (the header row included).
MaxRows == 3

\* Longest generated text handed to the Date Normalizer and the Weekday
\* Resolver when they are exercised on their own.
MaxLen == 3

(***************************************************************************)
(* Characters and the str methods the program uses.                        *)
(***************************************************************************)
BOM == "BOM"

Digits == {"0", "1", "2", "3", "4", "5", "6", "7", "8", "9"}

UPPER == <<"A", "B", "C", "D", "E", "F", "G", "H", "I", "J", "K", "L", "M",
           "N", "O", "P", "Q", "R", "S", "T", "U", "V", "W", "X", "Y", "Z",
           "A_uml">>

LOWER == <<"a", "b", "c", "d", "e", "f", "g", "h", "i", "j", "k", "l", "m",
           "n", "o", "p", "q", "r", "s", "t", "u", "v", "w", "x", "y", "z",
           "a_uml">>

Whitespace == {" ", "\t"}

Range(s) == {s[n] : n \in 1..Len(s)}

Letters == Range(UPPER) \cup Range(LOWER)

\* ch.isalpha()
isalpha(ch) == ch \in Letters

\* The lower-case letter of every upper-case letter.
LowerOf ==
    [ch \in Range(UPPER) |-> LOWER[CHOOSE n \in 1..Len(UPPER) : UPPER[n] = ch]]

\* str.lower(), character by character
LowerChar(ch) == IF ch \in DOMAIN LowerOf THEN LowerOf[ch] ELSE ch

lower(s) == [n \in 1..Len(s) |-> LowerChar(s[n])]

RECURSIVE lstrip(_)
lstrip(s) ==
    IF s # <<>> /\ Head(s) \in Whitespace THEN lstrip(Tail(s)) ELSE s

RECURSIVE rstrip(_)
rstrip(s) ==
    IF s # <<>> /\ s[Len(s)] \in Whitespace
    THEN rstrip(SubSeq(s, 1, Len(s) - 1))
    ELSE s

\* str.strip(): U+FEFF is not whitespace for Python
strip(s) == rstrip(lstrip(s))

\* str.lstrip("\ufeff")
RECURSIVE lstrip_bom(_)
lstrip_bom(s) ==
    IF s # <<>> /\ Head(s) = BOM THEN lstrip_bom(Tail(s)) ELSE s

\* The part of s before the first character of set cs (all of s if none).
RECURSIVE BeforeFirst(_, _)
BeforeFirst(s, cs) ==
    IF s = <<>> \/ Head(s) \in cs
    THEN <<>>
    ELSE <<Head(s)>> \o BeforeFirst(Tail(s), cs)

\* s.split(sep) for a one-character sep
RECURSIVE split(_, _)
split(s, sep) ==
    IF sep \notin Range(s)
    THEN <<s>>
    ELSE LET head == BeforeFirst(s, {sep})
         IN  <<head>> \o split(SubSeq(s, Len(head) + 2, Len(s)), sep)

\* s.split(): the whitespace-separated words of s (none for blank s)
RECURSIVE split_ws(_)
split_ws(s) ==
    LET t == lstrip(s)
    IN  IF t = <<>>
        THEN <<>>
        ELSE LET w == BeforeFirst(t, Whitespace)
             IN  <<w>> \o split_ws(SubSeq(t, Len(w) + 1, Len(t)))

\* s.replace(old, new) for a one-character old; new is a text
RECURSIVE replace(_, _, _)
replace(s, old, new) ==
    IF s = <<>>
    THEN <<>>
    ELSE (IF Head(s) = old THEN new ELSE <<Head(s)>>)
         \o replace(Tail(s), old, new)

\* str.isdigit() on the decimal digits
isdigit(s) == s # <<>> /\ \A n \in 1..Len(s) : s[n] \in Digits

DigitVal ==
    [ch \in Digits |->
        CHOOSE n \in 0..9 : <<"0", "1", "2", "3", "4", "5", "6", "7", "8", "9">>[n + 1] = ch]

\* int(s) for a text of decimal digits
RECURSIVE int(_)
int(s) ==
    IF s = <<>> THEN 0
    ELSE 10 * int(SubSeq(s, 1, Len(s) - 1)) + DigitVal[s[Len(s)]]

(***************************************************************************)
(* WEEKDAYS_FI and EN_TO_FI.                                               *)
(***************************************************************************)
Maanantai == <<"m", "a", "a", "n", "a", "n", "t", "a", "i">>
Tiistai == <<"t", "i", "i", "s", "t", "a", "i">>
Keskiviikko == <<"k", "e", "s", "k", "i", "v", "i", "i", "k", "k", "o">>
Torstai == <<"t", "o", "r", "s", "t", "a", "i">>
Perjantai == <<"p", "e", "r", "j", "a", "n", "t", "a", "i">>
Lauantai == <<"l", "a", "u", "a", "n", "t", "a", "i">>
Sunnuntai == <<"s", "u", "n", "n", "u", "n", "t", "a", "i">>

WEEKDAYS_FI ==
    <<Maanantai, Tiistai, Keskiviikko, Torstai, Perjantai, Lauantai, Sunnuntai>>

EN_TO_FI ==
    (<<"m", "o", "n", "d", "a", "y">> :> Maanantai)
    @@ (<<"t", "u", "e", "s", "d", "a", "y">> :> Tiistai)
    @@ (<<"w", "e", "d", "n", "e", "s", "d", "a", "y">> :> Keskiviikko)
    @@ (<<"t", "h", "u", "r", "s", "d", "a", "y">> :> Torstai)
    @@ (<<"f", "r", "i", "d", "a", "y">> :> Perjantai)
    @@ (<<"s", "a", "t", "u", "r", "d", "a", "y">> :> Lauantai)
    @@ (<<"s", "u", "n", "d", "a", "y">> :> Sunnuntai)

(***************************************************************************)
(* datetime.date, None and a raised IndexError as the three outcomes of    *)
(* _parse_date.                                                            *)
(***************************************************************************)
Date(y, m, d) == [tag |-> "date", y |-> y, m |-> m, d |-> d]

None == [tag |-> "None", y |-> 0, m |-> 0, d |-> 0]

IndexError == [tag |-> "IndexError", y |-> 0, m |-> 0, d |-> 0]

IsLeap(y) == (y % 4 = 0 /\ y % 100 # 0) \/ y % 400 = 0

DaysInMonth(y, m) ==
    IF m = 2 THEN (IF IsLeap(y) THEN 29 ELSE 28)
    ELSE IF m \in {4, 6, 9, 11} THEN 30 ELSE 31

\* datetime.date(y, m, d): ValueError (here None) outside MINYEAR..MAXYEAR
\* or for a day the month does not have.
MkDate(y, m, d) ==
    IF y \in 1..9999 /\ m \in 1..12 /\ d \in 1..DaysInMonth(y, m)
    THEN Date(y, m, d)
    ELSE None

\* The fields strptime's regular expressions accept: %d and %m are one or
\* two digits in range, %Y is four digits, %y is two digits.
FieldOK(p, maxLen, lo, hi) ==
    isdigit(p) /\ Len(p) <= maxLen /\ int(p) \in lo..hi

YearOf2(n) == IF n <= 68 THEN 2000 + n ELSE 1900 + n

\* datetime.datetime.strptime(v, fmt).date(); None stands for the
\* exception the caller swallows.
strptime(v, fmt) ==
    LET sep == IF fmt \in {"%d.%m.%Y", "%d.%m.%y"} THEN "."
               ELSE IF fmt = "%Y-%m-%d" THEN "-" ELSE "/"
        f == split(v, sep)
    IN  IF Len(f) # 3 THEN None
        ELSE IF fmt \in {"%d.%m.%Y", "%d/%m/%Y"}
        THEN IF FieldOK(f[1], 2, 1, 31) /\ FieldOK(f[2], 2, 1, 12)
                /\ isdigit(f[3]) /\ Len(f[3]) = 4
             THEN MkDate(int(f[3]), int(f[2]), int(f[1]))
             ELSE None
        ELSE IF fmt = "%Y-%m-%d"
        THEN IF isdigit(f[1]) /\ Len(f[1]) = 4 /\ FieldOK(f[2], 2, 1, 12)
                /\ FieldOK(f[3], 2, 1, 31)
             THEN MkDate(int(f[1]), int(f[2]), int(f[3]))
             ELSE None
        ELSE IF FieldOK(f[1], 2, 1, 31) /\ FieldOK(f[2], 2, 1, 12)
                /\ isdigit(f[3]) /\ Len(f[3]) = 2
             THEN MkDate(YearOf2(int(f[3])), int(f[2]), int(f[1]))
             ELSE None

\* datetime.date.fromisoformat(v): YYYY-MM-DD and the basic form YYYYMMDD.
\* The ISO week forms (a "W" in the text) are not drawn by any input here.
fromisoformat(v) ==
    IF Len(v) = 10 /\ v[5] = "-" /\ v[8] = "-"
       /\ isdigit(SubSeq(v, 1, 4)) /\ isdigit(SubSeq(v, 6, 7))
       /\ isdigit(SubSeq(v, 9, 10))
    THEN MkDate(int(SubSeq(v, 1, 4)), int(SubSeq(v, 6, 7)), int(SubSeq(v, 9, 10)))
    ELSE IF Len(v) = 8 /\ isdigit(v)
    THEN MkDate(int(SubSeq(v, 1, 4)), int(SubSeq(v, 5, 6)), int(SubSeq(v, 7, 8)))
    ELSE None

FORMATS == <<"%d.%m.%Y", "%Y-%m-%d", "%d/%m/%Y", "%d.%m.%y">>

\* The for loop over the formats: the first one that parses wins.
RECURSIVE TryFormats(_, _)
TryFormats(v, n) ==
    IF n > Len(FORMATS) THEN fromisoformat(v)
    ELSE LET parsed == strptime(v, FORMATS[n])
         IN  IF parsed.tag = "date" THEN parsed ELSE TryFormats(v, n + 1)

\* v.split("T")[0].split()[0]: the subscript [0] of an empty list raises.
Truncate(v) == split_ws(split(v, "T")[1])

_parse_date(value) ==
    LET v == lstrip_bom(strip(value))
        words == Truncate(v)
    IN  IF v = <<>> THEN None
        ELSE IF words = <<>> THEN IndexError
        ELSE TryFormats(words[1], 1)

\* date.weekday(): Monday is 0. Days since 1970-01-01 (a Thursday) by the
\* proleptic Gregorian calendar.
weekday(d) ==
    LET y == IF d.m <= 2 THEN d.y - 1 ELSE d.y
        era == y \div 400
        yoe == y % 400
        mp == IF d.m > 2 THEN d.m - 3 ELSE d.m + 9
        doy == (153 * mp + 2) \div 5 + d.d - 1
        doe == yoe * 365 + yoe \div 4 - yoe \div 100 + doy
        days == era * 146097 + doe - 719468
    IN  (days + 3) % 7

_weekday_finnish_from_date(d) == WEEKDAYS_FI[weekday(d) + 1]

\* The outcome of _weekday_finnish_from_text: a returned text, or the
\* IndexError _parse_date raised.
Returned(t) == [raised |-> FALSE, value |-> t]

Raised == [raised |-> TRUE, value |-> <<>>]

\* As _weekday_finnish_from_text, but the passthrough returns the
\* lower-cased text instead of the trimmed original.
Resolver_PassthroughLowered(value) ==
    LET v == strip(value)
        d == _parse_date(v)
        low == lower(v)
    IN  IF v = <<>> THEN Returned(<<>>)
        ELSE IF d.tag = "IndexError" THEN Raised
        ELSE IF d.tag = "date" THEN Returned(_weekday_finnish_from_date(d))
        ELSE IF low \in DOMAIN EN_TO_FI THEN Returned(EN_TO_FI[low])
        ELSE IF low \in Range(WEEKDAYS_FI) THEN Returned(low)
        ELSE IF isdigit(low) /\ int(low) \in 0..6
        THEN Returned(WEEKDAYS_FI[int(low) + 1])
        ELSE IF isdigit(low) /\ int(low) \in 1..7
        THEN Returned(WEEKDAYS_FI[int(low)])
        ELSE Returned(low)

_weekday_finnish_from_text(value) ==
    LET v == strip(value)
        d == _parse_date(v)
        low == lower(v)
    IN  IF v = <<>> THEN Returned(<<>>)
        ELSE IF d.tag = "IndexError" THEN Raised
        ELSE IF d.tag = "date" THEN Returned(_weekday_finnish_from_date(d))
        ELSE IF low \in DOMAIN EN_TO_FI THEN Returned(EN_TO_FI[low])
        ELSE IF low \in Range(WEEKDAYS_FI) THEN Returned(low)
        ELSE IF isdigit(low) /\ int(low) \in 0..6
        THEN Returned(WEEKDAYS_FI[int(low) + 1])
        ELSE IF isdigit(low) /\ int(low) \in 1..7
        THEN Returned(WEEKDAYS_FI[int(low)])
        ELSE Returned(v)

(***************************************************************************)
(* float.  A Python float is an IEEE 754 binary64 number.  The readings    *)
(* drawn are non-negative, so a float is [exp, m]: m holds the 53-bit      *)
(* significand as three limbs (13, 20 and 20 bits), its top bit set, and   *)
(* the value is significand * 2^(exp - 52); Zero has significand 0.  Every *)
(* operation gives the float nearest to the exact result, ties to the even *)
(* significand.                                                            *)
(***************************************************************************)
\* the significand bits of a float
Precision == 53

\* Wide naturals are sequences of limbs of Width bits, most significant first.
Width == 20

Base == 2 ^ Width

\* 0 and 0.0
Zero == [exp |-> 0, m |-> <<0, 0, 0>>]

\* limb n of a, 0 outside a
Limb(a, n) == IF n \in 1..Len(a) THEN a[n] ELSE 0

\* a * 2^t for 0 <= t < Width, one limb longer than a
ShiftLeftBits(a, t) ==
    [n \in 1..(Len(a) + 1) |->
        (Limb(a, n - 1) % (2 ^ (Width - t))) * (2 ^ t) + Limb(a, n) \div (2 ^ (Width - t))]

\* a * 2^s
ShiftLeft(a, s) == ShiftLeftBits(a, s % Width) \o [n \in 1..(s \div Width) |-> 0]

\* a \div 2^s, and whether a bit was lost
ShiftRight(a, s) ==
    LET whole == SubSeq(a, 1, Len(a) - (s \div Width))
        t == s % Width
    IN  [q |-> [n \in 1..Len(whole) |->
                   (Limb(whole, n - 1) % (2 ^ t)) * (2 ^ (Width - t)) + whole[n] \div (2 ^ t)],
         lost |-> \/ \E n \in (Len(whole) + 1)..Len(a) : a[n] # 0
                  \/ (whole # <<>> /\ whole[Len(whole)] % (2 ^ t) # 0)]

\* the number of bits of a
BitLen(a) ==
    LET used == {n \in 1..Len(a) : a[n] # 0}
        top == CHOOSE n \in used : \A k \in used : n <= k
    IN  IF used = {} THEN 0
        ELSE (Len(a) - top) * Width
             + (CHOOSE b \in 1..Width : 2 ^ (b - 1) <= a[top] /\ a[top] < 2 ^ b)

\* the sum of the limbs of A and B from position k on, the carry out first
RECURSIVE AddFrom(_, _, _)
AddFrom(A, B, k) ==
    IF k > Len(A) THEN <<0>>
    ELSE LET r == AddFrom(A, B, k + 1)
             s == A[k] + B[k] + r[1]
         IN  <<s \div Base, s % Base>> \o Tail(r)

\* a lengthened at the front to n limbs
PadFront(a, n) == [k \in 1..(n - Len(a)) |-> 0] \o a

\* a + b
AddWide(a, b) ==
    LET n == IF Len(a) >= Len(b) THEN Len(a) ELSE Len(b)
    IN  AddFrom(PadFront(a, n), PadFront(b, n), 1)

\* the last three limbs of a
Low3(a) == SubSeq(a, Len(a) - 2, Len(a))

\* The float nearest to (a + fraction) * 2^e, ties to even: a is a wide
\* natural, not 0, and sticky tells that the exact value has a non-zero
\* fraction (then a has more than Precision bits).
RoundNearestEven(a, sticky, e) ==
    LET len == BitLen(a)
        drop == len - Precision
        kept == ShiftRight(a, drop - 1)
        guard == kept.q[Len(kept.q)] % 2
        q == ShiftRight(kept.q, 1).q
        up == guard = 1 /\ (sticky \/ kept.lost \/ q[Len(q)] % 2 = 1)
        inc == AddWide(q, <<1>>)
    IN  IF drop <= 0 THEN [exp |-> e + len - 1, m |-> Low3(ShiftLeft(<<0, 0>> \o a, -drop))]
        ELSE IF ~up THEN [exp |-> e + len - 1, m |-> Low3(q)]
        ELSE IF BitLen(inc) > Precision
        THEN [exp |-> e + len, m |-> Low3(ShiftRight(inc, 1).q)]
        ELSE [exp |-> e + len - 1, m |-> Low3(inc)]

\* the float of the integer n, 0 <= n < 2^31
FromInt(n) ==
    IF n = 0 THEN Zero
    ELSE RoundNearestEven(<<n \div Base, n % Base>>, FALSE, 0)

\* x + y
Add(x, y) ==
    IF x = Zero THEN y
    ELSE IF y = Zero THEN x
    ELSE LET a == IF x.exp >= y.exp THEN x ELSE y
             b == IF x.exp >= y.exp THEN y ELSE x
             k == a.exp - b.exp
         IN  IF k > Precision + 1 THEN a
             ELSE RoundNearestEven(AddWide(ShiftLeft(a.m, k), b.m), FALSE,
                                   b.exp - (Precision - 1))

\* the quotient limbs of c by d from position k on, r the remainder so
\* far; the last element is the final remainder
RECURSIVE DivFrom(_, _, _, _)
DivFrom(c, d, k, r) ==
    IF k > Len(c) THEN <<r>>
    ELSE LET n == r * Base + c[k]
         IN  <<n \div d>> \o DivFrom(c, d, k + 1, n % d)

\* x / d for an integer d in 1..1000
Div(x, d) ==
    IF x = Zero THEN Zero
    ELSE LET qr == DivFrom(x.m \o <<0, 0, 0>>, d, 1, 0)
         IN  RoundNearestEven(SubSeq(qr, 1, Len(qr) - 1), qr[Len(qr)] # 0,
                              x.exp - (Precision - 1) - 3 * Width)

\* Optional[float]
NoNum == [some |-> FALSE, num |-> Zero]

Num(x) == [some |-> TRUE, num |-> x]

RECURSIVE Pow10(_)
Pow10(n) == IF n = 0 THEN 1 ELSE 10 * Pow10(n - 1)

\* float(v) for digits with at most one period, at most three decimals and
\* at most a plus sign in front: the float nearest to the decimal.  Every
\* other text drawn raises ValueError (here NoNum); no reading drawn has a
\* minus sign or an exponent.
float(v) ==
    LET body == IF v # <<>> /\ Head(v) = "+" THEN Tail(v) ELSE v
        parts == split(body, ".")
        ip == parts[1]
        fp == IF Len(parts) = 2 THEN parts[2] ELSE <<>>
    IN  IF Len(parts) <= 2 /\ (ip = <<>> \/ isdigit(ip))
           /\ (fp = <<>> \/ isdigit(fp)) /\ (ip # <<>> \/ fp # <<>>)
           /\ Len(fp) <= 3
        THEN Num(Div(FromInt(int(ip \o fp)), Pow10(Len(fp))))
        ELSE NoNum

_to_kwh_guess(s) ==
    LET v == replace(replace(strip(s), " ", <<>>), ",", <<".">>)
        num == float(v)
    IN  IF v = <<>> THEN NoNum
        ELSE IF ~num.some THEN NoNum
        ELSE Num(Div(num.num, 1000))

(***************************************************************************)
(* Column Mapper.                                                          *)
(***************************************************************************)
Kulutus == <<"k", "u", "l", "u", "t", "u", "s">>
Tuotanto == <<"t", "u", "o", "t", "a", "n", "t", "o">>
Vaihe(n) == <<" ", "v", "a", "i", "h", "e", " ", n>>
V(n) == <<" ", "v", n>>

\* As CellLower, but the letter case is kept.
CellLower_CaseKept(cell) == strip(cell)

\* cell.lower().strip()
CellLower(cell) == strip(lower(cell))

\* The if/elif chain of _etsi_sarakeindeksit: the key a lower-cased cell
\* sets, "" for a cell that sets none.
KeyOfLabel(cell_lower) ==
    IF cell_lower = <<"p", "a_uml", "i", "v", "a_uml">> \/ cell_lower = <<"d", "a", "y">>
    THEN "date"
    ELSE IF cell_lower = Kulutus \o Vaihe("1") \/ cell_lower = Kulutus \o V("1")
    THEN "ck"
    ELSE IF cell_lower = Kulutus \o Vaihe("2") \/ cell_lower = Kulutus \o V("2")
    THEN "cv"
    ELSE IF cell_lower = Kulutus \o Vaihe("3") \/ cell_lower = Kulutus \o V("3")
    THEN "ct"
    ELSE IF cell_lower = Tuotanto \o Vaihe("1") \/ cell_lower = Tuotanto \o V("1")
    THEN "pk"
    ELSE IF cell_lower = Tuotanto \o Vaihe("2") \/ cell_lower = Tuotanto \o V("2")
    THEN "pv"
    ELSE IF cell_lower = Tuotanto \o Vaihe("3") \/ cell_lower = Tuotanto \o V("3")
    THEN "pt"
    ELSE ""

\* The loop of _etsi_sarakeindeksit from cell n on; found is the dict so far.
RECURSIVE EtsiFrom(_, _, _)
EtsiFrom(header, n, found) ==
    IF n > Len(header) THEN found
    ELSE LET key == KeyOfLabel(CellLower(header[n]))
         IN  EtsiFrom(header, n + 1,
                      IF key = "" THEN found ELSE (key :> (n - 1)) @@ found)

_etsi_sarakeindeksit(header) == EtsiFrom(header, 1, <<>>)

DefaultIndices ==
    [date |-> 0, ck |-> 1, cv |-> 2, ct |-> 3, pk |-> 4, pv |-> 5, pt |-> 6]

\* any(cell and any(ch.isalpha() for ch in cell) for cell in first)
HasHeader(first) ==
    \E n \in 1..Len(first) : \E m \in 1..Len(first[n]) : isalpha(first[n][m])

\* indices after indices.update(found_indices)
ColumnMapping(first) ==
    IF HasHeader(first) THEN _etsi_sarakeindeksit(first) @@ DefaultIndices
    ELSE DefaultIndices

(***************************************************************************)
(* Aggregator: the body of the loop over the data rows.                    *)
(***************************************************************************)
\* As IsBlank, but only a row without cells counts as blank.
IsBlank_NoCellsOnly(row) == row = <<>>

\* not row or all(cell.strip() == "" for cell in row)
IsBlank(row) == row = <<>> \/ \A n \in 1..Len(row) : strip(row[n]) = <<>>

\* raw_date
RawDate(row, idx) ==
    IF idx["date"] < Len(row) THEN row[idx["date"] + 1] ELSE <<>>

\* weekday: from the date when d is a date, else from the text
RowWeekday(row, idx) ==
    LET d == _parse_date(RawDate(row, idx))
    IN  IF d.tag = "IndexError" THEN Raised
        ELSE IF d.tag = "date" THEN Returned(_weekday_finnish_from_date(d))
        ELSE _weekday_finnish_from_text(RawDate(row, idx))

\* val(idx)
val(row, n) == IF n >= Len(row) THEN NoNum ELSE _to_kwh_guess(row[n + 1])

\* val(...) or 0
OrZero(x) == IF x.some THEN x.num ELSE Zero

\* the entry a weekday gets when it is first seen
NewEntry(d) ==
    [ck |-> Zero, cv |-> Zero, ct |-> Zero, pk |-> Zero, pv |-> Zero, pt |-> Zero,
     date |-> d]

\* As Accumulate, but the sum is overwritten (= for +=).
Accumulate_Overwrites(old, x) == x

\* daily_data[weekday][f] += x
Accumulate(old, x) == Add(old, x)

\* daily_data after a row that raises nothing
AddRow(dd, row, idx) ==
    LET d == _parse_date(RawDate(row, idx))
        wd == IF d.tag = "date" THEN _weekday_finnish_from_date(d)
              ELSE _weekday_finnish_from_text(RawDate(row, idx)).value
        base == IF wd \in DOMAIN dd THEN dd ELSE (wd :> NewEntry(d)) @@ dd
    IN  [base EXCEPT ![wd] =
            [f \in DOMAIN @ |->
                IF f = "date" THEN @[f]
                ELSE Accumulate(@[f], OrZero(val(row, idx[f])))]]

(***************************************************************************)
(* Report Renderer.                                                        *)
(***************************************************************************)
DigitChar(n) == <<"0", "1", "2", "3", "4", "5", "6", "7", "8", "9">>[n + 1]

\* n as exactly w decimal digits
RECURSIVE Padded(_, _)
Padded(n, w) ==
    IF w = 0 THEN <<>> ELSE Padded(n \div 10, w - 1) \o <<DigitChar(n % 10)>>

\* d.strftime("%d.%m.%Y") if d else ""
_format_date_fi(d) ==
    IF d.tag = "date"
    THEN Padded(d.d, 2) \o <<".">> \o Padded(d.m, 2) \o <<".">> \o Padded(d.y, 4)
    ELSE <<>>

\* As ShouldPrint, but a weekday without a representative date is left out.
ShouldPrint_OnlyDated(wd, dd) == wd \in DOMAIN dd /\ dd[wd].date.tag = "date"

\* if weekday in daily_data
ShouldPrint(wd, dd) == wd \in DOMAIN dd

\* One printed weekday line: the name, the date and the six sums (the
\* fixed-width number formatting of _fmt_num_kwh is left to the sums).
Line(wd, entry) ==
    [weekday |-> wd, date_str |-> _format_date_fi(entry.date),
     ck |-> entry.ck, cv |-> entry.cv, ct |-> entry.ct,
     pk |-> entry.pk, pv |-> entry.pv, pt |-> entry.pt]

\* for weekday in WEEKDAYS_FI, from the n-th weekday on: the lines printed
RECURSIVE ReportLines(_, _)
ReportLines(dd, n) ==
    IF n > Len(WEEKDAYS_FI) THEN <<>>
    ELSE (IF ShouldPrint(WEEKDAYS_FI[n], dd)
          THEN <<Line(WEEKDAYS_FI[n], dd[WEEKDAYS_FI[n]])>>
          ELSE <<>>)
         \o ReportLines(dd, n + 1)

\* The loop over the data rows as a function of the rows: the aggregates
\* it ends with, or raised when a row's date cell makes _parse_date raise.
RECURSIVE Aggregate(_, _, _)
Aggregate(rows, idx, dd) ==
    IF rows = <<>> THEN [raised |-> FALSE, dd |-> dd]
    ELSE IF IsBlank(Head(rows)) THEN Aggregate(Tail(rows), idx, dd)
    ELSE IF RowWeekday(Head(rows), idx).raised THEN [raised |-> TRUE, dd |-> dd]
    ELSE Aggregate(Tail(rows), idx, AddRow(dd, Head(rows), idx))

\* tulosta_taulukko as a function of the rows lue_data returned: how it
\* ends and the weekday lines it printed.
tulosta_taulukko(rows) ==
    IF rows = <<>> THEN [pc |-> "done", out |-> <<>>]
    ELSE LET idx == ColumnMapping(rows[1])
             start == IF HasHeader(rows[1]) THEN 2 ELSE 1
             agg == Aggregate(SubSeq(rows, start, Len(rows)), idx, <<>>)
         IN  IF agg.raised THEN [pc |-> "error", out |-> <<>>]
             ELSE [pc |-> "done", out |-> ReportLines(agg.dd, 1)]

(***************************************************************************)
(* The files drawn: raw rows as csv.reader yields them.                    *)
(***************************************************************************)
HdrSwap == << <<"K", "u", "l", "u", "t", "u", "s", " ", "V", "1">>,
              <<" ", "D", "A", "Y", " ">> >>
HdrFi == << <<"P", "a_uml", "i", "v", "a_uml">>, <<"D", "a", "y", " ", "1">>,
            <<"T", "u", "o", "t", "a", "n", "t", "o", " ", "v", "a", "i", "h", "e", " ", "3">> >>
RowWed == << <<"0", "1", ".", "0", "1", ".", "2", "0", "2", "5">>,
             <<"1", "0", "0", "0">>, <<"2", "0", "0", "0">>, <<"3", "0", "0", "0">>,
             <<"4", "0", "0", "0">>, <<"5", "0", "0", "0">>, <<"6", "0", "0", "0">> >>
RowTiistai == << <<"t", "i", "i", "s", "t", "a", "i">>, <<" ", "1", "0", "0", " ">> >>
RowTueIso == << <<"2", "0", "2", "5", "-", "0", "1", "-", "0", "7", "T", "1", "0", ":", "0", "0">>,
                <<"2", "0", "0">>, <<"a", "b", "c">>, <<>>, <<"1", "2", ",", "5">> >>
RowTuesday == << <<"T", "u", "e", "s", "d", "a", "y">>, <<"1", "0", "0", "0">> >>
RowFoo == << <<"F", "o", "o">> >>
RowNoDate == << <<>>, <<"1", "0", "0">> >>
RowOne == << <<"1">>, <<"3", "0", "0">> >>
RowEmpty == <<>>
RowSpaces == << <<" ">>, <<>> >>

Rows ==
    {HdrSwap, HdrFi, RowWed, RowTiistai, RowTueIso, RowTuesday,
     RowFoo, RowNoDate, RowOne, RowEmpty, RowSpaces}

Files == UNION {[1..n -> Rows] : n \in 0..MaxRows}

\* The texts the two text functions are exercised on.
FnAlphabet == {"T", " ", BOM, "7", "a"}

FnTexts ==
    UNION {[1..n -> FnAlphabet] : n \in 0..MaxLen}
    \cup {RawDate(r, DefaultIndices) : r \in Rows}
    \cup {<<"T", "H", "U", "R", "S", "D", "A", "Y">>,
          <<"M", "o", "n", "d", "a", "y">>,
          <<"s", "u", "n", "d", "a", "y">>,
          <<"M", "a", "a", "n", "a", "n", "t", "a", "i">>,
          <<"0">>, <<"3">>, <<"6">>, <<"8">>, <<"0", "7">>,
          <<"6", ".", "1", ".", "2", "5">>,
          <<"7", "/", "1", "/", "2", "0", "2", "5">>,
          <<"0", "7", ".", "0", "1", ".", "2", "0", "2", "5", " ", "1", "0", ":", "0", "0">>,
          <<"3", "1", ".", "2", ".", "2", "0", "2", "5">>}

(***************************************************************************)
(* tulosta_taulukko as a state machine.  pc is the place in the function:  *)
(* "read" before lue_data, "setup" before the header is inspected, "loop"  *)
(* at the head of the loop over data[start:] (i is the 1-based index of    *)
(* the next row), "done" after the report is printed or the early return,  *)
(* and "error" after an uncaught exception.                                *)
(***************************************************************************)
Init ==
    /\ file \in Files
    /\ data = <<>>
    /\ pc = "read"
    /\ has_header = FALSE
    /\ indices = DefaultIndices
    /\ i = 1
    /\ daily_data = <<>>
    /\ out = <<>>
    /\ fn_text = <<>>
    /\ fn_pc = "idle"
    /\ fn_date = None
    /\ fn_wd = Returned(<<>>)

\* lue_data: every cell stripped
LueData ==
    /\ pc = "read"
    /\ data' = [r \in 1..Len(file) |-> [c \in 1..Len(file[r]) |-> strip(file[r][c])]]
    /\ pc' = "setup"
    /\ UNCHANGED <<file, has_header, indices, i, daily_data, out, fnVars>>

\* if not data: return
ReturnEmpty ==
    /\ pc = "setup"
    /\ data = <<>>
    /\ pc' = "done"
    /\ UNCHANGED <<file, data, has_header, indices, i, daily_data, out, fnVars>>

\* header detection, the column mapping and start
Setup ==
    /\ pc = "setup"
    /\ data # <<>>
    /\ has_header' = HasHeader(data[1])
    /\ indices' = ColumnMapping(data[1])
    /\ daily_data' = <<>>
    /\ i' = IF HasHeader(data[1]) THEN 2 ELSE 1
    /\ pc' = "loop"
    /\ UNCHANGED <<file, data, out, fnVars>>

\* a blank row: continue
SkipBlank ==
    /\ pc = "loop"
    /\ i <= Len(data)
    /\ IsBlank(data[i])
    /\ i' = i + 1
    /\ UNCHANGED <<file, data, pc, has_header, indices, daily_data, out, fnVars>>

\* a row folded into its weekday's aggregate
ProcessRow ==
    /\ pc = "loop"
    /\ i <= Len(data)
    /\ ~IsBlank(data[i])
    /\ ~RowWeekday(data[i], indices).raised
    /\ daily_data' = AddRow(daily_data, data[i], indices)
    /\ i' = i + 1
    /\ UNCHANGED <<file, data, pc, has_header, indices, out, fnVars>>

\* a row whose date cell makes _parse_date raise: the exception is caught
\* nowhere and ends the program
RowRaises ==
    /\ pc = "loop"
    /\ i <= Len(data)
    /\ ~IsBlank(data[i])
    /\ RowWeekday(data[i], indices).raised
    /\ pc' = "error"
    /\ UNCHANGED <<file, data, has_header, indices, i, daily_data, out, fnVars>>

\* the title, the column header, the separator line and the weekday lines
PrintReport ==
    /\ pc = "loop"
    /\ i > Len(data)
    /\ out' = ReportLines(daily_data, 1)
    /\ pc' = "done"
    /\ UNCHANGED <<file, data, has_header, indices, i, daily_data, fnVars>>

Next ==
    \/ LueData
    \/ ReturnEmpty
    \/ Setup
    \/ SkipBlank
    \/ ProcessRow
    \/ RowRaises
    \/ PrintReport

Spec == Init /\ [][Next]_vars

(***************************************************************************)
(* The Date Normalizer and the Weekday Resolver called on their own, on    *)
(* every text of FnTexts.                                                  *)
(***************************************************************************)
InitFn ==
    /\ fn_text \in FnTexts
    /\ fn_pc = "call"
    /\ fn_date = None
    /\ fn_wd = Returned(<<>>)
    /\ file = <<>>
    /\ data = <<>>
    /\ pc = "idle"
    /\ has_header = FALSE
    /\ indices = DefaultIndices
    /\ i = 1
    /\ daily_data = <<>>
    /\ out = <<>>

CallParseDate ==
    /\ fn_pc = "call"
    /\ fn_date' = _parse_date(fn_text)
    /\ fn_pc' = "parsed"
    /\ UNCHANGED <<fn_text, fn_wd, progVars>>

CallWeekdayFromText ==
    /\ fn_pc = "call"
    /\ fn_wd' = _weekday_finnish_from_text(fn_text)
    /\ fn_pc' = "resolved"
    /\ UNCHANGED <<fn_text, fn_date, progVars>>

NextFn == CallParseDate \/ CallWeekdayFromText

SpecFn == InitFn /\ [][NextFn]_vars

(***************************************************************************)
(* What the claims speak of, read off the state.                           *)
(***************************************************************************)
\* A fully blank row: no cells, or only empty and whitespace-only cells.
C_Blank(row) == \A n \in 1..Len(row) : \A m \in 1..Len(row[n]) : row[n][m] \in Whitespace

\* The index of the first data row.
C_Start == IF has_header THEN 2 ELSE 1

\* The rows the loop has folded into the aggregates so far.
C_Folded == {j \in C_Start..(i - 1) : ~C_Blank(data[j])}

\* The text of a row's date cell, empty when the row has no such cell.
C_DateCell(row) ==
    IF indices["date"] + 1 \in 1..Len(row) THEN row[indices["date"] + 1] ELSE <<>>

\* The aggregate key a folded row went to.
C_Key(row) == RowWeekday(row, indices).value

C_Canonical ==
    {<<"m", "a", "a", "n", "a", "n", "t", "a", "i">>,
     <<"t", "i", "i", "s", "t", "a", "i">>,
     <<"k", "e", "s", "k", "i", "v", "i", "i", "k", "k", "o">>,
     <<"t", "o", "r", "s", "t", "a", "i">>,
     <<"p", "e", "r", "j", "a", "n", "t", "a", "i">>,
     <<"l", "a", "u", "a", "n", "t", "a", "i">>,
     <<"s", "u", "n", "n", "u", "n", "t", "a", "i">>}

C_English ==
    <<<<"m", "o", "n", "d", "a", "y">>, <<"t", "u", "e", "s", "d", "a", "y">>,
      <<"w", "e", "d", "n", "e", "s", "d", "a", "y">>,
      <<"t", "h", "u", "r", "s", "d", "a", "y">>, <<"f", "r", "i", "d", "a", "y">>,
      <<"s", "a", "t", "u", "r", "d", "a", "y">>, <<"s", "u", "n", "d", "a", "y">>>>

C_PhaseFields == {"ck", "cv", "ct", "pk", "pv", "pt"}


(***************************************************************************)
(* C1.  Each weekday's representative date is the date of the first folded *)
(* row of that weekday whose date cell parsed, and is absent only if no    *)
(* such row exists.                                                        *)
(***************************************************************************)
C1_Dated(w) ==
    {j \in C_Folded : C_Key(data[j]) = w /\ _parse_date(C_DateCell(data[j])).tag = "date"}

C1_FirstParsedDate ==
    \A w \in DOMAIN daily_data :
        daily_data[w].date =
            IF C1_Dated(w) = {} THEN None
            ELSE _parse_date(C_DateCell(data[CHOOSE j \in C1_Dated(w) :
                                              \A j2 \in C1_Dated(w) : j <= j2]))

(***************************************************************************)
(* C2.  _parse_date ends with a date or None and                           *)
(* _weekday_finnish_from_text with a canonical weekday name or the trimmed *)
(* input text; neither ends in an error.                                   *)
(***************************************************************************)
C2_NeverRaises ==
    /\ fn_pc = "parsed" => fn_date.tag \in {"date", "None"}
    /\ fn_pc = "resolved" =>
          /\ ~fn_wd.raised
          /\ fn_wd.value \in C_Canonical \/ fn_wd.value = strip(fn_text)

(***************************************************************************)
(* C3.  For a non-empty trimmed text that does not parse as a date the     *)
(* resolver answers by the first strategy that applies: English name,      *)
(* Finnish name, digit 0..6 (0 is Monday) or 7 (Sunday), else the trimmed  *)
(* text itself.                                                            *)
(***************************************************************************)
C3_Expected(t) ==
    IF \E n \in 1..7 : lower(t) = C_English[n]
    THEN WEEKDAYS_FI[CHOOSE n \in 1..7 : lower(t) = C_English[n]]
    ELSE IF lower(t) \in C_Canonical THEN lower(t)
    ELSE IF isdigit(t) /\ int(t) \in 0..6 THEN WEEKDAYS_FI[int(t) + 1]
    ELSE IF isdigit(t) /\ int(t) = 7 THEN WEEKDAYS_FI[7]
    ELSE t

C3_PriorityOrder ==
    (/\ fn_pc = "resolved"
     /\ strip(fn_text) # <<>>
     /\ _parse_date(strip(fn_text)).tag # "date")
    => fn_wd = Returned(C3_Expected(strip(fn_text)))

(***************************************************************************)
(* C4.  As claimed: the aggregate mapping holds at most 7 entries and      *)
(* every key is a canonical weekday name.                                  *)
(***************************************************************************)
C4_OnlyCanonicalKeys ==
    /\ DOMAIN daily_data \subseteq C_Canonical
    /\ Cardinality(DOMAIN daily_data) <= 7

\* A trimmed text no strategy of the resolver turns into a weekday.
C4_Unresolved(t) ==
    \/ t = <<>>
    \/ /\ _parse_date(t).tag = "None"
       /\ \A n \in 1..7 : lower(t) # C_English[n]
       /\ lower(t) \notin C_Canonical
       /\ ~(isdigit(t) /\ int(t) \in 0..7)

(***************************************************************************)
(* C4, amended.  Every key of the aggregate mapping is a canonical weekday *)
(* name or the trimmed date-cell text of a folded row that resolves to no  *)
(* weekday (an unrecognized label, or the empty text of an empty or        *)
(* missing date cell).                                                     *)
(***************************************************************************)
C4_KeysCanonicalOrPassthrough ==
    \A key \in DOMAIN daily_data :
        \/ key \in C_Canonical
        \/ \E j \in C_Folded :
              key = strip(C_DateCell(data[j])) /\ C4_Unresolved(key)

\* An unrecognized label and an empty date cell have each made a key beside
\* a canonical one.
C4_Witness ==
    /\ <<>> \in DOMAIN daily_data
    /\ <<"F", "o", "o">> \in DOMAIN daily_data
    /\ DOMAIN daily_data \cap C_Canonical # {}

(***************************************************************************)
(* C5.  Every non-blank data row adds, for each phase field, the cell's    *)
(* value divided by 1000, or 0 for a missing, empty or unparseable cell,   *)
(* and is never aborted; so each sum is the sum over the weekday's rows.   *)
(***************************************************************************)
C5_Added(row, f) ==
    IF indices[f] + 1 \in 1..Len(row) /\ _to_kwh_guess(row[indices[f] + 1]).some
    THEN _to_kwh_guess(row[indices[f] + 1]).num
    ELSE Zero

\* The sum of what the rows of weekday w up to row j add to field f.
RECURSIVE C5_SumTo(_, _, _)
C5_SumTo(w, f, j) ==
    IF j < C_Start THEN Zero
    ELSE IF j \in C_Folded /\ C_Key(data[j]) = w
    THEN Add(C5_SumTo(w, f, j - 1), C5_Added(data[j], f))
    ELSE C5_SumTo(w, f, j - 1)

C5_EveryRowAdded ==
    /\ ~(pc = "error" /\ ~C_Blank(data[i]))
    /\ \A w \in DOMAIN daily_data : \A f \in C_PhaseFields :
          daily_data[w][f] = C5_SumTo(w, f, i - 1)

(***************************************************************************)
(* C6.  The report has exactly one line for each canonical weekday that    *)
(* has an aggregate, none for any other weekday, and the lines run Monday  *)
(* to Sunday.                                                              *)
(***************************************************************************)
C6_MondayToSunday ==
    <<<<"m", "a", "a", "n", "a", "n", "t", "a", "i">>,
      <<"t", "i", "i", "s", "t", "a", "i">>,
      <<"k", "e", "s", "k", "i", "v", "i", "i", "k", "k", "o">>,
      <<"t", "o", "r", "s", "t", "a", "i">>,
      <<"p", "e", "r", "j", "a", "n", "t", "a", "i">>,
      <<"l", "a", "u", "a", "n", "t", "a", "i">>,
      <<"s", "u", "n", "n", "u", "n", "t", "a", "i">>>>

C6_Index(w) == CHOOSE n \in 1..7 : C6_MondayToSunday[n] = w

C6_CanonicalOrder ==
    pc = "done" =>
        /\ Len(out) <= 7
        /\ \A m \in 1..Len(out) : out[m].weekday \in C_Canonical
        /\ \A n \in 1..7 :
              Cardinality({m \in 1..Len(out) : out[m].weekday = C6_MondayToSunday[n]})
              = IF C6_MondayToSunday[n] \in DOMAIN daily_data THEN 1 ELSE 0
        /\ \A m1, m2 \in 1..Len(out) :
              m1 < m2 => C6_Index(out[m1].weekday) < C6_Index(out[m2].weekday)

\* Two weekdays first occur in the rows in the opposite of their canonical
\* order, and both are printed.
C6_Witness ==
    /\ pc = "done"
    /\ Len(out) >= 2
    /\ \E j1, j2 \in C_Folded :
          /\ j1 < j2
          /\ C_Key(data[j1]) \in C_Canonical
          /\ C_Key(data[j2]) \in C_Canonical
          /\ C6_Index(C_Key(data[j1])) > C6_Index(C_Key(data[j2]))

(***************************************************************************)
(* C7.  The weekday keys and the six totals of each weekday are those of   *)
(* the same rows aggregated in one fixed order, whatever the order of the  *)
(* rows in the file: so every order of the same rows gives the same keys   *)
(* and totals.                                                             *)
(***************************************************************************)
C7_Order ==
    <<HdrSwap, HdrFi, RowWed, RowTiistai, RowTueIso, RowTuesday, RowFoo,
      RowNoDate, RowOne, RowEmpty, RowSpaces>>

C7_Stripped(row) == [c \in 1..Len(row) |-> strip(row[c])]

\* The rows of C7_Order as lue_data returns them.
C7_Fixed == [n \in 1..Len(C7_Order) |-> C7_Stripped(C7_Order[n])]

C7_Is(n, row) == row = C7_Fixed[n]

RECURSIVE C7_SortedFrom(_, _)
C7_SortedFrom(rows, n) ==
    IF n > Len(C7_Order) THEN <<>>
    ELSE SelectSeq(rows, LAMBDA r : C7_Is(n, r)) \o C7_SortedFrom(rows, n + 1)

\* The data rows taken so far, in file order.
C7_Rows == SubSeq(data, C_Start, i - 1)

C7_Totals(dd) ==
    [w \in DOMAIN dd |-> [f \in C_PhaseFields |-> dd[w][f]]]

C7_OrderIndependent ==
    pc = "done" =>
        /\ Len(C7_SortedFrom(C7_Rows, 1)) = Len(C7_Rows)
        /\ C7_Totals(daily_data)
           = C7_Totals(Aggregate(C7_SortedFrom(C7_Rows, 1), indices, <<>>).dd)

\* The float n units in the last place above x.
RECURSIVE C7_Above(_, _)
C7_Above(x, n) ==
    IF n = 0 THEN x
    ELSE LET y == C7_Above(x, n - 1)
             up == AddWide(y.m, <<1>>)
         IN  IF BitLen(up) > Precision
             THEN [exp |-> y.exp + 1, m |-> Low3(ShiftRight(up, 1).q)]
             ELSE [exp |-> y.exp, m |-> Low3(up)]

\* x and y are at most n units in the last place apart.
C7_Close(x, y, n) ==
    \/ x = y
    \/ /\ x # Zero
       /\ y # Zero
       /\ \E m \in 1..n : C7_Above(x, m) = y \/ C7_Above(y, m) = x

(***************************************************************************)
(* C7, amended.  Every order of the same data rows gives the same weekday  *)
(* keys, and per-field totals that agree up to the rounding of the float   *)
(* additions: for n data rows of non-negative readings they are at most    *)
(* 2n units in the last place apart.                                       *)
(***************************************************************************)
C7_OrderIndependentUpToRounding ==
    pc = "done" =>
        LET other == Aggregate(C7_SortedFrom(C7_Rows, 1), indices, <<>>).dd
        IN  /\ Len(C7_SortedFrom(C7_Rows, 1)) = Len(C7_Rows)
            /\ DOMAIN other = DOMAIN daily_data
            /\ \A w \in DOMAIN daily_data : \A f \in C_PhaseFields :
                  C7_Close(daily_data[w][f], other[w][f], 2 * Len(C7_Rows))

\* Three rows of one weekday were aggregated in an order whose total is not
\* the total of the fixed order.
C7_Witness ==
    /\ pc = "done"
    /\ Len(C7_Rows) = 3
    /\ \A j \in 1..3 : C_Key(C7_Rows[j]) = <<"t", "i", "i", "s", "t", "a", "i">>
    /\ C7_Totals(daily_data)
       # C7_Totals(Aggregate(C7_SortedFrom(C7_Rows, 1), indices, <<>>).dd)

(***************************************************************************)
(* C8.  The column mapping gives all seven fields an index: the defaults   *)
(* when the first row has no letter; with a header, for each field the     *)
(* position of a cell whose lower-cased trimmed text is one of the field's *)
(* labels, and the default when there is no such cell.                     *)
(***************************************************************************)
C8_Default(f) ==
    CASE f = "date" -> 0 [] f = "ck" -> 1 [] f = "cv" -> 2 [] f = "ct" -> 3
      [] f = "pk" -> 4 [] f = "pv" -> 5 [] f = "pt" -> 6

C8_Pair(word, n) ==
    {word \o <<" ", "v", "a", "i", "h", "e", " ", n>>, word \o <<" ", "v", n>>}

C8_Labels(f) ==
    CASE f = "date" -> {<<"p", "a_uml", "i", "v", "a_uml">>, <<"d", "a", "y">>}
      [] f = "ck" -> C8_Pair(<<"k", "u", "l", "u", "t", "u", "s">>, "1")
      [] f = "cv" -> C8_Pair(<<"k", "u", "l", "u", "t", "u", "s">>, "2")
      [] f = "ct" -> C8_Pair(<<"k", "u", "l", "u", "t", "u", "s">>, "3")
      [] f = "pk" -> C8_Pair(<<"t", "u", "o", "t", "a", "n", "t", "o">>, "1")
      [] f = "pv" -> C8_Pair(<<"t", "u", "o", "t", "a", "n", "t", "o">>, "2")
      [] f = "pt" -> C8_Pair(<<"t", "u", "o", "t", "a", "n", "t", "o">>, "3")

C8_Letter(row) ==
    \E n \in 1..Len(row) : \E m \in 1..Len(row[n]) : isalpha(row[n][m])

C8_Positions(row, f) ==
    {n \in 0..(Len(row) - 1) : lower(strip(row[n + 1])) \in C8_Labels(f)}

C8_AllSevenMapped ==
    pc \in {"loop", "done", "error"} /\ data # <<>> =>
        /\ DOMAIN indices = C_PhaseFields \cup {"date"}
        /\ \A f \in DOMAIN indices :
              IF C8_Letter(data[1]) /\ C8_Positions(data[1], f) # {}
              THEN indices[f] \in C8_Positions(data[1], f)
              ELSE indices[f] = C8_Default(f)

\* A header whose labels, in another letter case, move the date and one
\* phase off their default columns.
C8_Witness ==
    /\ pc = "loop"
    /\ C8_Letter(data[1])
    /\ indices["date"] = 1
    /\ indices["ck"] = 0
    /\ indices["cv"] = 2

(***************************************************************************)
(* C9.  As claimed: a blank row changes no aggregate, and the report is    *)
(* the report for the same rows with every blank row removed.              *)
(***************************************************************************)
C9_NonBlank(rows) == SelectSeq(rows, LAMBDA r : ~C_Blank(r))

C9_BlankRowsLeaveNoTrace ==
    daily_data = Aggregate(C9_NonBlank(C7_Rows), indices, <<>>).dd

C9_SameReportWithoutBlankRows ==
    /\ C9_BlankRowsLeaveNoTrace
    /\ pc = "done" =>
          tulosta_taulukko(C9_NonBlank(data)) = [pc |-> "done", out |-> out]

(***************************************************************************)
(* C9, amended.  A blank row changes no aggregate, and the report is the   *)
(* report for the same rows with every blank row after the first row       *)
(* removed.                                                                *)
(***************************************************************************)
C9_SameReportWithoutLaterBlankRows ==
    /\ C9_BlankRowsLeaveNoTrace
    /\ pc = "done" /\ data # <<>> =>
          tulosta_taulukko(<<data[1]>> \o C9_NonBlank(Tail(data)))
          = [pc |-> "done", out |-> out]

\* A report was printed from rows with a blank row, of whitespace-only
\* cells in the file, between two rows that were folded.
C9_Witness ==
    /\ pc = "done"
    /\ out # <<>>
    /\ \E j \in 2..Len(data) :
          /\ file[j] = RowSpaces
          /\ C_Blank(data[j])
          /\ \E j1, j2 \in C_Folded : j1 < j /\ j < j2

(***************************************************************************)
(* C10.  The first row is folded into the aggregates exactly if none of    *)
(* its cells has a letter, and every later non-blank row is folded into    *)
(* exactly one aggregate.                                                  *)
(***************************************************************************)
C10_FirstRowIffNoLetter ==
    /\ pc # "error"
    /\ pc = "done" /\ data # <<>> =>
          /\ (1 \in C_Folded /\ C_Key(data[1]) \in DOMAIN daily_data)
             <=> ~C8_Letter(data[1])
          /\ \A j \in 2..Len(data) :
                ~C_Blank(data[j]) =>
                    j \in C_Folded /\ C_Key(data[j]) \in DOMAIN daily_data

====
